---- MODULE Spec2Model ----
(***************************************************************************)
(* A model of the apple-numbers-mcp table engine: the condition matcher,   *)
(* the query engine (projection and pagination), the SheetJS mutation      *)
(* engine and the AppleScript cell-update path.                            *)
(*                                                                         *)
(* JavaScript values are tagged records [t, v]; strings are sequences of   *)
(* one-character strings so that String(), Number(), toLowerCase() and     *)
(* includes() are computed as the language computes them.  Objects are     *)
(* sequences of <<key, value>> pairs in insertion order (the order         *)
(* Object.entries and Object.keys report for non-index keys).              *)
(***************************************************************************)
EXTENDS Integers, Sequences, FiniteSets, TLC

VARIABLES
    file,    \* the persisted sheet as an array of arrays, header row first
    call,    \* the request being served: [op |-> ..., arguments]
    result,  \* what the call returned or threw; NoResult while it is pending
    before,  \* the persisted sheet when the call started
    commands \* the cell commands the call sent to the spreadsheet application

vars == <<file, call, result, before, commands>>

(***************************************************************************)
(* Bounds of the model.                                                    *)
(***************************************************************************)
MaxClauses == 2     \* clauses in a multi-clause where condition
MaxRows == 3        \* data rows of a queried sheet
MaxBatchRows == 2   \* data rows of a sheet under batch update
MaxPairs == 2       \* {where, set} pairs in one batch update
MaxNewRows == 2     \* rows in the array given to one insert
MaxMutRows == 3     \* data rows of a sheet under a single update, insert or delete
MaxColorRows == 5   \* data rows of a sheet whose colors are read

(***************************************************************************)
(* JavaScript values.                                                      *)
(***************************************************************************)
Undefined == [t |-> "undefined", v |-> 0]
Null == [t |-> "null", v |-> 0]
NaN == [t |-> "NaN", v |-> 0]
Num(n) == [t |-> "number", v |-> n]
Str(s) == [t |-> "string", v |-> s]
Bool(b) == [t |-> "boolean", v |-> b]

\* an RGBColor object
Color(r, g, b) == [t |-> "color", v |-> <<r, g, b>>]

\* a === b
StrictEq(a, b) == a.t # "NaN" /\ a = b

\* a ?? b
Coalesce(a, b) == IF a.t \in {"null", "undefined"} THEN b ELSE a

Digits == <<"0", "1", "2", "3", "4", "5", "6", "7", "8", "9">>
UpperCase == <<"A", "B", "C", "D", "E", "F", "G", "H", "I", "J", "K", "L", "M",
               "N", "O", "P", "Q", "R", "S", "T", "U", "V", "W", "X", "Y", "Z">>
LowerCase == <<"a", "b", "c", "d", "e", "f", "g", "h", "i", "j", "k", "l", "m",
               "n", "o", "p", "q", "r", "s", "t", "u", "v", "w", "x", "y", "z">>

IndexIn(seq, c) ==
    IF \E i \in DOMAIN seq : seq[i] = c
    THEN CHOOSE i \in DOMAIN seq : seq[i] = c
    ELSE 0

RECURSIVE NatToChars(_)
NatToChars(n) ==
    IF n < 10 THEN <<Digits[n + 1]>>
    ELSE NatToChars(n \div 10) \o <<Digits[(n % 10) + 1]>>

\* String(value), as characters
ToStringChars(value) ==
    CASE value.t = "undefined" -> <<"u", "n", "d", "e", "f", "i", "n", "e", "d">>
      [] value.t = "null" -> <<"n", "u", "l", "l">>
      [] value.t = "NaN" -> <<"N", "a", "N">>
      [] value.t = "boolean" ->
            IF value.v THEN <<"t", "r", "u", "e">> ELSE <<"f", "a", "l", "s", "e">>
      [] value.t = "number" ->
            IF value.v < 0 THEN <<"-">> \o NatToChars(0 - value.v) ELSE NatToChars(value.v)
      [] OTHER -> value.v

\* s.toLowerCase()
ToLowerCase(s) ==
    [i \in DOMAIN s |->
        IF IndexIn(UpperCase, s[i]) # 0 THEN LowerCase[IndexIn(UpperCase, s[i])] ELSE s[i]]

\* hay.includes(needle)
Includes(hay, needle) ==
    \E i \in 0..(Len(hay) - Len(needle)) : SubSeq(hay, i + 1, i + Len(needle)) = needle

RECURSIVE TrimLeft(_)
TrimLeft(s) == IF s # <<>> /\ Head(s) = " " THEN TrimLeft(Tail(s)) ELSE s

RECURSIVE TrimRight(_)
TrimRight(s) ==
    IF s # <<>> /\ s[Len(s)] = " " THEN TrimRight(SubSeq(s, 1, Len(s) - 1)) ELSE s

RECURSIVE DigitsToNat(_)
DigitsToNat(s) ==
    IF s = <<>> THEN 0
    ELSE 10 * DigitsToNat(SubSeq(s, 1, Len(s) - 1)) + (IndexIn(Digits, s[Len(s)]) - 1)

AllDigits(s) == s # <<>> /\ \A i \in DOMAIN s : IndexIn(Digits, s[i]) # 0

\* Number(string) for the integer literals, on the string with its surrounding
\* blanks dropped: the empty string is 0, an optional sign precedes the digits,
\* anything else is NaN
ParseTrimmed(body) ==
    IF body = <<>> THEN Num(0)
    ELSE IF Head(body) \in {"-", "+"}
         THEN IF AllDigits(Tail(body))
              THEN Num((IF Head(body) = "-" THEN 0 - 1 ELSE 1) * DigitsToNat(Tail(body)))
              ELSE NaN
         ELSE IF AllDigits(body) THEN Num(DigitsToNat(body)) ELSE NaN

StringToNumber(s) == ParseTrimmed(TrimRight(TrimLeft(s)))

\* Number(value)
ToNumber(value) ==
    CASE value.t = "undefined" -> NaN
      [] value.t = "null" -> Num(0)
      [] value.t = "boolean" -> IF value.v THEN Num(1) ELSE Num(0)
      [] value.t = "string" -> StringToNumber(value.v)
      [] OTHER -> value

\* the relational operators >, >=, <, <= on numbers: false when a side is NaN
NumCompare(op, a, b) ==
    /\ a.t = "number"
    /\ b.t = "number"
    /\ CASE op = "gt" -> a.v > b.v
         [] op = "gte" -> a.v >= b.v
         [] op = "lt" -> a.v < b.v
         [] op = "lte" -> a.v <= b.v
         [] OTHER -> FALSE

(***************************************************************************)
(* Objects: sequences of <<key, value>> pairs.                             *)
(***************************************************************************)
HasKey(obj, key) == \E i \in DOMAIN obj : obj[i][1] = key

\* obj[key]
ObjGet(obj, key) ==
    IF HasKey(obj, key)
    THEN obj[CHOOSE i \in DOMAIN obj : obj[i][1] = key][2]
    ELSE Undefined

\* obj[key] = value
ObjSet(obj, key, value) ==
    IF HasKey(obj, key)
    THEN [i \in DOMAIN obj |-> IF obj[i][1] = key THEN <<key, value>> ELSE obj[i]]
    ELSE Append(obj, <<key, value>>)

ObjKeys(obj) == [i \in DOMAIN obj |-> obj[i][1]]

(***************************************************************************)
(* The condition matcher.  A where condition is the sequence of its        *)
(* entries [column, isOp, op, value]; isOp says the entry's value is an    *)
(* object with an "op" key.                                                *)
(***************************************************************************)
KnownOps == {"contains", "gt", "gte", "lt", "lte", "ne"}

Literal(column, value) == [column |-> column, isOp |-> FALSE, op |-> "", value |-> value]
Operator(column, op, value) == [column |-> column, isOp |-> TRUE, op |-> op, value |-> value]

Returned(b) == [threw |-> FALSE, value |-> b, error |-> <<>>]
UnknownOperator(op) == [threw |-> TRUE, value |-> FALSE, error |-> <<"Unknown operator", op>>]

\* the switch of matchesCondition for a known operator: TRUE when the clause passes
OpPasses(op, value, condValue) ==
    CASE op = "contains" ->
            Includes(ToLowerCase(ToStringChars(value)), ToLowerCase(ToStringChars(condValue)))
      [] op = "ne" -> ~StrictEq(value, condValue)
      [] OTHER -> NumCompare(op, ToNumber(value), ToNumber(condValue))

\* the simple equality check
LiteralPasses(value, condition) == StrictEq(value, condition)

ClausePasses(clause, value) ==
    IF clause.isOp
    THEN OpPasses(clause.op, value, clause.value)
    ELSE LiteralPasses(value, clause.value)

\* a matcher that looks at the last entry of where only
matchesFromLastOnly(row, where, i) ==
    IF Len(where) = 0 THEN Returned(TRUE)
    ELSE IF where[Len(where)].isOp /\ where[Len(where)].op \notin KnownOps
         THEN UnknownOperator(where[Len(where)].op)
    ELSE Returned(ClausePasses(where[Len(where)], ObjGet(row, where[Len(where)].column)))

\* the loop over Object.entries(where), from entry i on
RECURSIVE matchesFrom(_, _, _)
matchesFrom(row, where, i) ==
    IF i > Len(where) THEN Returned(TRUE)
    ELSE IF where[i].isOp /\ where[i].op \notin KnownOps THEN UnknownOperator(where[i].op)
    ELSE IF ClausePasses(where[i], ObjGet(row, where[i].column))
         THEN matchesFrom(row, where, i + 1)
         ELSE Returned(FALSE)

\* a matcher for which a condition without entries matches no row
matchesConditionNeverEmpty(row, where) ==
    IF Len(where) = 0 THEN Returned(FALSE) ELSE matchesFrom(row, where, 1)

matchesCondition(row, where) == matchesFrom(row, where, 1)

(***************************************************************************)
(* Results.  Every result carries done; NoResult is a call still pending.  *)
(***************************************************************************)
NoResult == [done |-> FALSE]
NoFile == <<>>

(***************************************************************************)
(* SpecMatch: matchesCondition applied to one row and one condition.       *)
(* Columns a and b are keys of the row; column c is not.                   *)
(***************************************************************************)
CellValues ==
    {Null, Num(0), Num(1), Num(2), Str(<<>>), Str(<<"1">>), Str(<<"A", "b">>), Bool(TRUE)}

Operands ==
    {Null, Num(1), Str(<<>>), Str(<<"1">>), Str(<<"a", "B">>), Str(<<"n", "u", "l">>),
     Str(<<"n", "u", "l", "l">>), Str(<<"u", "n", "d", "e", "f", "i", "n", "e", "d">>),
     Bool(TRUE)}

MatchRows ==
    {<<<<"a", x>>, <<"b", y>>>> : x \in CellValues, y \in {Null, Num(1), Str(<<"x">>)}}

\* every literal and every operator clause, known operators and the unknown "eq"
ClausesOn(column) ==
    {Literal(column, v) : v \in Operands}
        \cup {Operator(column, op, v) : op \in KnownOps \cup {"eq"}, v \in Operands}

FewClausesOn(column) ==
    {Literal(column, Num(1)), Literal(column, Null),
     Operator(column, "gt", Num(1)), Operator(column, "contains", Str(<<"a">>)),
     Operator(column, "ne", Null), Operator(column, "eq", Num(1))}

DistinctColumns(where) ==
    \A i, j \in DOMAIN where : i # j => where[i].column # where[j].column

MatchConditions ==
    {<<c>> : c \in ClausesOn("a") \cup ClausesOn("c")}
        \cup UNION {{w \in [1..n -> UNION {FewClausesOn(col) : col \in {"a", "b", "c"}}] :
                        DistinctColumns(w)} : n \in 0..MaxClauses}

InitMatch ==
    /\ file = NoFile
    /\ before = NoFile
    /\ call \in {[op |-> "matchesCondition", row |-> r, where |-> w] :
                    r \in MatchRows, w \in MatchConditions}
    /\ result = NoResult
    /\ commands = <<>>

MatchesCondition ==
    /\ call.op = "matchesCondition"
    /\ ~result.done
    /\ result' = [done |-> TRUE] @@ matchesCondition(call.row, call.where)
    /\ UNCHANGED <<file, call, before, commands>>

NextMatch == MatchesCondition

SpecMatch == InitMatch /\ [][NextMatch]_vars

MatchDone == call.op = "matchesCondition" /\ result.done

\* the only clause of a one-clause condition
OnlyClause == call.where[1]
OnlyCell == ObjGet(call.row, OnlyClause.column)

\* C1: a literal clause {col: v} matches iff the row's cell for col is strictly
\* equal to v, where a column absent from the row counts as null.
C1_LiteralAbsentIsNull ==
    (MatchDone /\ Len(call.where) = 1 /\ ~OnlyClause.isOp)
        => /\ ~result.threw
           /\ result.value =
                StrictEq(IF HasKey(call.row, OnlyClause.column) THEN OnlyCell ELSE Null,
                         OnlyClause.value)

\* C2: a condition holding a clause with an unknown operator always fails with
\* an error naming that operator, whatever the row and the other clauses.
C2_UnknownOperatorAlwaysThrows ==
    (MatchDone /\ \E i \in DOMAIN call.where :
                      call.where[i].isOp /\ call.where[i].op \notin KnownOps)
        => /\ result.threw
           /\ \E i \in DOMAIN call.where :
                /\ call.where[i].isOp
                /\ call.where[i].op \notin KnownOps
                /\ result.error = <<"Unknown operator", call.where[i].op>>

\* C3: for contains an absent or null cell is the empty string, so it matches
\* only an operand whose lowercased string is empty; any other cell is a
\* case-insensitive substring test of the stringified operand in the cell.
C3_ContainsNullIsEmpty ==
    (MatchDone /\ Len(call.where) = 1 /\ OnlyClause.isOp /\ OnlyClause.op = "contains")
        => /\ ~result.threw
           /\ result.value =
                Includes(IF OnlyCell.t \in {"null", "undefined"}
                         THEN <<>>
                         ELSE ToLowerCase(ToStringChars(OnlyCell)),
                         ToLowerCase(ToStringChars(OnlyClause.value)))

\* a value the claim C4 calls non-numeric, and one it calls numeric
NonNumeric(value) ==
    \/ value.t \in {"null", "undefined"}
    \/ value.t = "string" /\ (value.v = <<>> \/ StringToNumber(value.v) = NaN)
Numeric(value) ==
    \/ value.t = "number"
    \/ value.t = "string" /\ value.v # <<>> /\ StringToNumber(value.v) # NaN
Compare(op, x, y) ==
    CASE op = "gt" -> x > y
      [] op = "gte" -> x >= y
      [] op = "lt" -> x < y
      [] OTHER -> x <= y

\* C4: gt, gte, lt, lte never throw; a non-numeric cell or operand (unparsable
\* string, empty string, null, absent) makes the clause false; two numeric
\* sides compare numerically.
C4_NonNumericComparesFalse ==
    (MatchDone /\ Len(call.where) = 1 /\ OnlyClause.isOp
        /\ OnlyClause.op \in {"gt", "gte", "lt", "lte"})
        => /\ ~result.threw
           /\ (NonNumeric(OnlyCell) \/ NonNumeric(OnlyClause.value)) => ~result.value
           /\ (Numeric(OnlyCell) /\ Numeric(OnlyClause.value))
                => result.value = Compare(OnlyClause.op, ToNumber(OnlyCell).v,
                                          ToNumber(OnlyClause.value).v)

(***************************************************************************)
(* The table and the query engine.  A sheet is read as an array of arrays  *)
(* (sheet_to_json with header: 1, defval: null); header cells are          *)
(* non-null strings, so String(h) is the column name itself.               *)
(***************************************************************************)
\* aoa[i]?.[j]
CellAt(cells, j) == IF j \in DOMAIN cells THEN cells[j] ELSE Undefined

\* row[headers[j]] = aoa[i]?.[j] ?? null, for the first n headers
RECURSIVE RowObject(_, _, _)
RowObject(headers, cells, n) ==
    IF n = 0 THEN <<>>
    ELSE ObjSet(RowObject(headers, cells, n - 1), headers[n], Coalesce(CellAt(cells, n), Null))

sheetToTable(aoa) ==
    IF Len(aoa) = 0 THEN [headers |-> <<>>, rows |-> <<>>]
    ELSE [headers |-> aoa[1],
          rows |-> [i \in 1..(Len(aoa) - 1) |-> RowObject(aoa[1], aoa[i + 1], Len(aoa[1]))]]

\* filtered[col] = row[col], for the first n columns
RECURSIVE Project(_, _, _)
Project(row, columns, n) ==
    IF n = 0 THEN <<>>
    ELSE ObjSet(Project(row, columns, n - 1), columns[n], ObjGet(row, columns[n]))

filterColumns(rows, columns) ==
    [i \in DOMAIN rows |-> Project(rows[i], columns, Len(columns))]

Min(a, b) == IF a < b THEN a ELSE b
Max(a, b) == IF a > b THEN a ELSE b

\* a relative index of Array.prototype.slice: a negative index counts from the end
RelativeIndex(index, len) == IF index < 0 THEN Max(len + index, 0) ELSE Min(index, len)

\* items.slice(start, end)
Slice(items, start, end) ==
    SubSeq(items, RelativeIndex(start, Len(items)) + 1, RelativeIndex(end, Len(items)))

\* value is falsy: undefined, null, 0, NaN, "" or false
Falsy(value) ==
    \/ value.t \in {"undefined", "null", "NaN"}
    \/ value.t = "number" /\ value.v = 0
    \/ value.t = "string" /\ value.v = <<>>
    \/ value.t = "boolean" /\ ~value.v

\* start = offset || 0
PageStart(offset) == IF Falsy(offset) THEN 0 ELSE offset.v

\* end = limit ? start + limit : items.length
PageEnd(items, limit, start) == IF Falsy(limit) THEN Len(items) ELSE start + limit.v

PageOf(items, start, end) == [items |-> Slice(items, start, end), hasMore |-> end < Len(items)]

\* a paginate whose end forgets the offset: end = limit
paginateEndIsLimit(items, limit, offset) ==
    PageOf(items, PageStart(offset), PageEnd(items, limit, 0))

\* limit and offset are Undefined when omitted, else Num(n)
paginate(items, limit, offset) ==
    PageOf(items, PageStart(offset), PageEnd(items, limit, PageStart(offset)))

NoRows == [threw |-> FALSE, rows |-> <<>>, error |-> <<>>]

\* one step of rows.filter: m is matchesCondition(row, where)
FilterStep(sofar, m, row) ==
    IF sofar.threw THEN sofar
    ELSE IF m.threw THEN [threw |-> TRUE, rows |-> <<>>, error |-> m.error]
    ELSE IF m.value THEN [sofar EXCEPT !.rows = Append(@, row)]
    ELSE sofar

\* rows.filter(row => matchesCondition(row, where)) over the first n rows: the
\* first row whose evaluation throws ends the call
RECURSIVE findRowsUpTo(_, _, _)
findRowsUpTo(rows, where, n) ==
    IF n = 0 THEN NoRows
    ELSE FilterStep(findRowsUpTo(rows, where, n - 1), matchesCondition(rows[n], where), rows[n])

findRows(rows, where) == findRowsUpTo(rows, where, Len(rows))

Failure(error) == [done |-> TRUE, threw |-> TRUE, error |-> error]

\* options.columns && options.columns.length > 0
ColumnsGiven(columns) == columns.given /\ Len(columns.list) > 0

\* the column filter of findTableRows and getTableData
ApplyColumns(rows, columns) ==
    IF ColumnsGiven(columns) THEN filterColumns(rows, columns.list) ELSE rows

FindResult(totalMatches, page) ==
    [done |-> TRUE, threw |-> FALSE, error |-> <<>>,
     rows |-> page.items, count |-> Len(page.items),
     totalMatches |-> totalMatches, hasMore |-> page.hasMore]

FindPage(matched, columns, limit, offset) ==
    IF matched.threw THEN Failure(matched.error)
    ELSE FindResult(Len(matched.rows),
                    paginate(ApplyColumns(matched.rows, columns), limit, offset))

findTableRows(aoa, where, columns, limit, offset) ==
    FindPage(findRows(sheetToTable(aoa).rows, where), columns, limit, offset)

\* columns.filter(c => headers.includes(c))
RECURSIVE KeepHeaders(_, _)
KeepHeaders(columns, headers) ==
    IF columns = <<>> THEN <<>>
    ELSE (IF \E j \in DOMAIN headers : headers[j] = Head(columns)
          THEN <<Head(columns)>> ELSE <<>>) \o KeepHeaders(Tail(columns), headers)

TableResult(headers, totalRows, page) ==
    [done |-> TRUE, threw |-> FALSE, error |-> <<>>,
     headers |-> headers, rows |-> page.items, rowCount |-> Len(page.items),
     totalRows |-> totalRows, hasMore |-> page.hasMore]

TablePage(table, columns, limit, offset) ==
    TableResult(IF ColumnsGiven(columns)
                THEN KeepHeaders(columns.list, table.headers) ELSE table.headers,
                Len(table.rows),
                paginate(ApplyColumns(table.rows, columns), limit, offset))

getTableData(aoa, columns, limit, offset) ==
    TablePage(sheetToTable(aoa), columns, limit, offset)

(***************************************************************************)
(* SpecQuery: one findTableRows or getTableData call on a sheet with the   *)
(* headers id and s; row i of the sheet has id = i.                        *)
(***************************************************************************)
QueryHeaders == <<"id", "s">>

QuerySheets ==
    UNION {{<<QueryHeaders>> \o [i \in 1..n |-> <<Num(i), s[i]>>] :
                s \in [1..n -> {Str(<<"x">>), Str(<<"y">>)}]} : n \in 0..MaxRows}

QueryWheres ==
    {<<>>,
     <<Literal("s", Str(<<"x">>))>>,
     <<Operator("id", "gt", Num(1))>>,
     <<Literal("s", Str(<<"x">>)), Operator("id", "eq", Num(1))>>}

Omitted == [given |-> FALSE, list |-> <<>>]
Columns(list) == [given |-> TRUE, list |-> list]

QueryColumns == {Omitted, Columns(<<>>), Columns(<<"s", "id">>), Columns(<<"id", "zz">>)}

\* limit and offset: omitted, or an integer from -1 to one past the row bound
PageArgs == {Undefined} \cup {Num(n) : n \in (0 - 1)..(MaxRows + 1)}

InitQuery ==
    /\ file \in QuerySheets
    /\ before = file
    /\ call \in {[op |-> "findTableRows", where |-> w, columns |-> c,
                  limit |-> l, offset |-> o] :
                    w \in QueryWheres, c \in QueryColumns, l \in PageArgs, o \in PageArgs}
               \cup {[op |-> "getTableData", where |-> <<>>, columns |-> c,
                      limit |-> l, offset |-> o] :
                        c \in QueryColumns, l \in PageArgs, o \in PageArgs}
    /\ result = NoResult
    /\ commands = <<>>

FindTableRows ==
    /\ call.op = "findTableRows"
    /\ ~result.done
    /\ result' = findTableRows(file, call.where, call.columns, call.limit, call.offset)
    /\ UNCHANGED <<file, call, before, commands>>

GetTableData ==
    /\ call.op = "getTableData"
    /\ ~result.done
    /\ result' = getTableData(file, call.columns, call.limit, call.offset)
    /\ UNCHANGED <<file, call, before, commands>>

NextQuery == FindTableRows \/ GetTableData

SpecQuery == InitQuery /\ [][NextQuery]_vars

QueryDone == call.op \in {"findTableRows", "getTableData"} /\ result.done /\ ~result.threw

\* the rows that survive the where condition, before projection and pagination
Survivors ==
    IF call.op = "findTableRows"
    THEN findRows(sheetToTable(before).rows, call.where).rows
    ELSE sheetToTable(before).rows

\* the candidate count the result reports, and the number of rows it returns
CandidateCount == IF call.op = "findTableRows" THEN result.totalMatches ELSE result.totalRows
ReturnedCount == IF call.op = "findTableRows" THEN result.count ELSE result.rowCount

\* the window the spec's clamping rule selects from a candidate list
ClampedOffset == IF call.offset.t = "undefined" THEN 0
                 ELSE Min(Max(call.offset.v, 0), Len(Survivors))
ClampedLimit == IF call.limit.t = "undefined" THEN Len(Survivors) ELSE Max(call.limit.v, 0)
ClampedWindow(items) ==
    SubSeq(items, ClampedOffset + 1, Min(ClampedOffset + ClampedLimit, Len(items)))

\* a row projected to the requested keys, an absent column mapped to null
ProjectNull(row, columns) ==
    [j \in DOMAIN columns |->
        <<columns[j], IF HasKey(row, columns[j]) THEN ObjGet(row, columns[j]) ELSE Null>>]

\* C5: with a columns list every returned row has exactly the requested keys
\* in the requested order, and a column absent from the row is null.
C5_ProjectionAbsentIsNull ==
    (QueryDone /\ ColumnsGiven(call.columns))
        => \E page \in {paginate(Survivors, call.limit, call.offset).items} :
              result.rows = [i \in DOMAIN page |-> ProjectNull(page[i], call.columns.list)]

\* C6: out-of-range limit and offset clamp to the nearest valid boundary:
\* limit 0 and negative limits return no row, a negative offset starts at the
\* first candidate, an offset at or past the candidate count returns no row.
C6_PaginateClamps ==
    (QueryDone /\ ~ColumnsGiven(call.columns))
        => result.rows = ClampedWindow(Survivors)

\* C7: hasMore is false exactly when offset + returned count >= candidate count,
\* for every offset and limit (an omitted or negative offset counting as 0, the
\* boundary it clamps to).
C7_HasMoreExact ==
    QueryDone
        => result.hasMore =
             ~((IF call.offset.t = "undefined" THEN 0 ELSE Max(call.offset.v, 0))
                  + ReturnedCount >= CandidateCount)

(***************************************************************************)
(* SpecPages: a client reads two adjacent pages and then the combined      *)
(* page with three findTableRows calls on the same sheet and condition.    *)
(***************************************************************************)
PageSizes == 1..MaxRows

InitPages ==
    /\ file \in QuerySheets
    /\ before = file
    /\ call \in {[op |-> "pages", where |-> w, columns |-> c, n |-> n, m |-> m] :
                    w \in QueryWheres, c \in QueryColumns, n \in PageSizes, m \in PageSizes}
    /\ result = [done |-> FALSE, pages |-> <<>>]
    /\ commands = <<>>

PageCall(limit, offset, last) ==
    /\ result' = [done |-> last,
                  pages |-> Append(result.pages,
                      findTableRows(file, call.where, call.columns, Num(limit), Num(offset)))]
    /\ UNCHANGED <<file, call, before, commands>>

FirstPage == call.op = "pages" /\ Len(result.pages) = 0 /\ PageCall(call.n, 0, FALSE)
SecondPage == call.op = "pages" /\ Len(result.pages) = 1 /\ PageCall(call.m, call.n, FALSE)
CombinedPage == call.op = "pages" /\ Len(result.pages) = 2 /\ PageCall(call.n + call.m, 0, TRUE)

NextPages == FirstPage \/ SecondPage \/ CombinedPage

SpecPages == InitPages /\ [][NextPages]_vars

PagesWithinBounds ==
    /\ call.op = "pages"
    /\ result.done
    /\ \A i \in 1..3 : ~result.pages[i].threw
    /\ call.n + call.m <= result.pages[3].totalMatches

\* C8: for N, M >= 1 with N + M within the candidate count, the rows of
\* (offset 0, limit N) followed by the rows of (offset N, limit M) are, in
\* order, the rows of (offset 0, limit N + M): N rows, then the next M rows.
C8_AdjacentPagesConcatenate ==
    PagesWithinBounds
        => /\ result.pages[1].rows \o result.pages[2].rows = result.pages[3].rows
           /\ result.pages[1].count = call.n
           /\ result.pages[2].count = call.m

C8_Witness ==
    /\ PagesWithinBounds
    /\ call.n = 1
    /\ call.m = 2
    /\ Len(call.where) = 1
    /\ result.pages[3].count = 3
    /\ result.pages[2].rows[1] # result.pages[1].rows[1]

(***************************************************************************)
(* The mutation engine.  Persisting writes the header row and, per row,    *)
(* the cells headers.map(h => row[h]); a cell written as undefined or null *)
(* is an empty cell, which the next read reports as null.                  *)
(***************************************************************************)
\* newAoa = [headers, ...rows.map(row => headers.map(h => row[h]))], written and read back
writeWorkbook(headers, rows) ==
    <<headers>> \o
        [i \in DOMAIN rows |-> [j \in DOMAIN headers |-> Coalesce(ObjGet(rows[i], headers[j]), Null)]]

\* for (const [col, val] of Object.entries(set)) row[col] = val, for the first n entries
RECURSIVE assignAll(_, _, _)
assignAll(row, set, n) ==
    IF n = 0 THEN row
    ELSE ObjSet(assignAll(row, set, n - 1), set[n][1], set[n][2])

NoPass == [threw |-> FALSE, error |-> <<>>, matched |-> 0]

\* a row loop body that assigns set onto every row and counts the matching ones
UpdateStepEveryRow(sofar, m, set, n) ==
    IF sofar.threw THEN sofar
    ELSE IF m.threw THEN [sofar EXCEPT !.threw = TRUE, !.error = m.error]
    ELSE [sofar EXCEPT !.rows[n] = assignAll(@, set, Len(set)),
                       !.matched = IF m.value THEN @ + 1 ELSE @]

\* the body of the row loop for row n: m is matchesCondition(row, where)
UpdateStep(sofar, m, set, n) ==
    IF sofar.threw THEN sofar
    ELSE IF m.threw THEN [sofar EXCEPT !.threw = TRUE, !.error = m.error]
    ELSE IF m.value
         THEN [sofar EXCEPT !.rows[n] = assignAll(@, set, Len(set)), !.matched = @ + 1]
         ELSE sofar

\* one pass over the first n rows: every row that matches where gets set
\* assigned; the first row whose evaluation throws ends the call
RECURSIVE updateLoop(_, _, _, _)
updateLoop(rows, where, set, n) ==
    IF n = 0 THEN NoPass @@ [rows |-> rows]
    ELSE UpdateStep(updateLoop(rows, where, set, n - 1),
                    matchesCondition(rows[n], where), set, n)

NoBatch == [threw |-> FALSE, error |-> <<>>, totalUpdated |-> 0, details |-> <<>>]

\* the end of one pair's iteration: details.push({where, matched})
BatchStep(sofar, pass, where) ==
    IF sofar.threw THEN sofar
    ELSE IF pass.threw THEN [sofar EXCEPT !.threw = TRUE, !.error = pass.error]
    ELSE [threw |-> FALSE, error |-> <<>>, rows |-> pass.rows,
          totalUpdated |-> sofar.totalUpdated + pass.matched,
          details |-> Append(sofar.details, [where |-> where, matched |-> pass.matched])]

\* one pair, applied to the rows the pairs before it left
BatchPass(sofar, pair) ==
    BatchStep(sofar, updateLoop(sofar.rows, pair.where, pair.set, Len(sofar.rows)), pair.where)

\* a batch loop that matches every pair against the rows as loaded and assigns
\* onto the accumulated rows
RECURSIVE batchLoopOnLoadedRows(_, _, _)
batchLoopOnLoadedRows(rows, updates, n) ==
    IF n = 0 THEN NoBatch @@ [rows |-> rows]
    ELSE LET sofar == batchLoopOnLoadedRows(rows, updates, n - 1)
             pass == updateLoop(rows, updates[n].where, updates[n].set, Len(rows))
             hit == {i \in DOMAIN rows : matchesCondition(rows[i], updates[n].where).value}
             merged == [i \in DOMAIN rows |->
                          IF i \in hit
                          THEN assignAll(sofar.rows[i], updates[n].set, Len(updates[n].set))
                          ELSE sofar.rows[i]]
         IN  BatchStep(sofar, [pass EXCEPT !.rows = merged], updates[n].where)

\* the loop over the first n pairs
RECURSIVE batchLoop(_, _, _)
batchLoop(rows, updates, n) ==
    IF n = 0 THEN NoBatch @@ [rows |-> rows]
    ELSE BatchPass(batchLoop(rows, updates, n - 1), updates[n])

\* an outcome that persists the rows changed so far when the loop throws
BatchOutcomeWritesOnError(aoa, headers, loop) ==
    IF loop.threw
    THEN [result |-> Failure(loop.error), file |-> writeWorkbook(headers, loop.rows),
          commands |-> <<>>]
    ELSE [result |-> [done |-> TRUE, threw |-> FALSE, error |-> <<>>,
                      updatedCount |-> loop.totalUpdated, details |-> loop.details],
          file |-> writeWorkbook(headers, loop.rows),
          commands |-> <<>>]

\* the call's outcome: what it returns and the sheet it leaves persisted
BatchOutcome(aoa, headers, loop) ==
    IF loop.threw
    THEN [result |-> Failure(loop.error), file |-> aoa, commands |-> <<>>]
    ELSE [result |-> [done |-> TRUE, threw |-> FALSE, error |-> <<>>,
                      updatedCount |-> loop.totalUpdated, details |-> loop.details],
          file |-> writeWorkbook(headers, loop.rows),
          commands |-> <<>>]

BatchOnTable(aoa, table, updates) ==
    BatchOutcome(aoa, table.headers, batchLoop(table.rows, updates, Len(updates)))

batchUpdateTableRows(aoa, updates) == BatchOnTable(aoa, sheetToTable(aoa), updates)

\* the outcome of updateTableRows after its row loop
UpdateOutcome(aoa, headers, loop) ==
    IF loop.threw
    THEN [result |-> Failure(loop.error), file |-> aoa, commands |-> <<>>]
    ELSE [result |-> [done |-> TRUE, threw |-> FALSE, error |-> <<>>,
                      updatedCount |-> loop.matched],
          file |-> writeWorkbook(headers, loop.rows),
          commands |-> <<>>]

\* an update that appends the set columns that are not headers to the headers
UpdateOnTableExtendsHeaders(aoa, table, where, set) ==
    UpdateOutcome(aoa,
                  table.headers \o SelectSeq(ObjKeys(set), LAMBDA k : IndexIn(table.headers, k) = 0),
                  updateLoop(table.rows, where, set, Len(table.rows)))

UpdateOnTable(aoa, table, where, set) ==
    UpdateOutcome(aoa, table.headers, updateLoop(table.rows, where, set, Len(table.rows)))

updateTableRows(aoa, where, set) == UpdateOnTable(aoa, sheetToTable(aoa), where, set)

\* a filter step that puts the kept row in front of the rows kept so far
RemainStepReversed(sofar, m, row) ==
    IF sofar.threw THEN sofar
    ELSE IF m.threw THEN [threw |-> TRUE, rows |-> <<>>, error |-> m.error]
    ELSE IF m.value THEN sofar
    ELSE [sofar EXCEPT !.rows = <<row>> \o @]

\* one step of rows.filter(row => !matchesCondition(row, where))
RemainStep(sofar, m, row) ==
    IF sofar.threw THEN sofar
    ELSE IF m.threw THEN [threw |-> TRUE, rows |-> <<>>, error |-> m.error]
    ELSE IF m.value THEN sofar
    ELSE [sofar EXCEPT !.rows = Append(@, row)]

\* the rows among the first n that do not match where
RECURSIVE remainingUpTo(_, _, _)
remainingUpTo(rows, where, n) ==
    IF n = 0 THEN NoRows
    ELSE RemainStep(remainingUpTo(rows, where, n - 1), matchesCondition(rows[n], where), rows[n])

DeleteOutcome(aoa, headers, originalCount, remaining) ==
    IF remaining.threw
    THEN [result |-> Failure(remaining.error), file |-> aoa, commands |-> <<>>]
    ELSE [result |-> [done |-> TRUE, threw |-> FALSE, error |-> <<>>,
                      deletedCount |-> originalCount - Len(remaining.rows),
                      remainingRows |-> Len(remaining.rows)],
          file |-> writeWorkbook(headers, remaining.rows),
          commands |-> <<>>]

DeleteOnTable(aoa, table, where) ==
    DeleteOutcome(aoa, table.headers, Len(table.rows),
                  remainingUpTo(table.rows, where, Len(table.rows)))

deleteTableRows(aoa, where) == DeleteOnTable(aoa, sheetToTable(aoa), where)

\* newRows is one row object or an array of row objects
OneRow(row) == [isArray |-> FALSE, row |-> row, rows |-> <<>>]
ManyRows(rows) == [isArray |-> TRUE, row |-> <<>>, rows |-> rows]

\* Array.isArray(newRows) ? newRows : [newRows]
rowsToAdd(newRows) == IF newRows.isArray THEN newRows.rows ELSE <<newRows.row>>

\* an add that appends the key also when it is already a member
SetAddAlways(seq, key) == Append(seq, key)

\* Set.prototype.add on an insertion-ordered set
SetAdd(seq, key) ==
    IF \E i \in DOMAIN seq : seq[i] = key THEN seq ELSE Append(seq, key)

RECURSIVE SetAddAll(_, _)
SetAddAll(seq, keys) ==
    IF keys = <<>> THEN seq ELSE SetAddAll(SetAdd(seq, Head(keys)), Tail(keys))

\* new Set(headers), then allHeaders.add(key) for every key of the first n rows
RECURSIVE allHeaders(_, _, _)
allHeaders(headers, toAdd, n) ==
    IF n = 0 THEN SetAddAll(<<>>, headers)
    ELSE SetAddAll(allHeaders(headers, toAdd, n - 1), ObjKeys(toAdd[n]))

AddOutcome(finalHeaders, rows, addedCount) ==
    [result |-> [done |-> TRUE, threw |-> FALSE, error |-> <<>>,
                 addedCount |-> addedCount, totalRows |-> Len(rows)],
     file |-> writeWorkbook(finalHeaders, rows),
     commands |-> <<>>]

AddOnTable(table, toAdd) ==
    AddOutcome(allHeaders(table.headers, toAdd, Len(toAdd)), table.rows \o toAdd, Len(toAdd))

addTableRows(aoa, newRows) == AddOnTable(sheetToTable(aoa), rowsToAdd(newRows))

(***************************************************************************)
(* The AppleScript update path: the sheet is read with SheetJS and the     *)
(* cells are written by the spreadsheet application, one command per cell. *)
(***************************************************************************)
\* headers.indexOf(col) + 1, 0 when the column is missing
ColumnIndex(headers, col) == IndexIn(headers, col)

\* the value a cell holds after `set value of cell c of row r to <formatted>`:
\* null and undefined are written as "" and leave the cell empty
formattedValue(value) == Coalesce(value, Null)

\* the first n commands run in order on the open document, which is then saved
RECURSIVE updateCellsBatch(_, _, _)
updateCellsBatch(aoa, updates, n) ==
    IF n = 0 THEN aoa
    ELSE [updateCellsBatch(aoa, updates, n - 1)
            EXCEPT ![updates[n].rowIndex][updates[n].colIndex] = formattedValue(updates[n].value)]

\* allCols.add(col) for every key, in order
AddNew(sofar, keys) ==
    sofar \o SelectSeq(keys, LAMBDA k : \A i \in DOMAIN sofar : sofar[i] # k)

\* the set columns of the first n pairs, in the order first seen
RECURSIVE allSetColumns(_, _)
allSetColumns(updatesList, n) ==
    IF n = 0 THEN <<>>
    ELSE AddNew(allSetColumns(updatesList, n - 1), ObjKeys(updatesList[n].set))

MissingColumns(headers, allCols) ==
    SelectSeq(allCols, LAMBDA col : ColumnIndex(headers, col) = 0)

ColumnNotFound(col) == <<"Column not found", col>>

\* cell commands that take the position of the row in the table for its row
\* in the document
cellCommandsOnTableRow(rowIndex, set, headers) ==
    [k \in DOMAIN set |-> [rowIndex |-> rowIndex - 1,
                           colIndex |-> ColumnIndex(headers, set[k][1]),
                           value |-> set[k][2]]]

\* the cell commands of one matching row: one per entry of set
cellCommands(rowIndex, set, headers) ==
    [k \in DOMAIN set |-> [rowIndex |-> rowIndex,
                           colIndex |-> ColumnIndex(headers, set[k][1]),
                           value |-> set[k][2]]]

\* the body of the row loop: m is matchesCondition(rows[i], where)
PairStep(sofar, m, cells) ==
    IF sofar.threw THEN sofar
    ELSE IF m.threw THEN [sofar EXCEPT !.threw = TRUE, !.error = m.error]
    ELSE IF m.value THEN [sofar EXCEPT !.cells = @ \o cells, !.matched = @ + 1]
    ELSE sofar

\* one pair against the first n rows as loaded; the row at position n of the
\* table (i = n - 1) is row i + 2 of the document
RECURSIVE pairCommands(_, _, _, _, _)
pairCommands(rows, where, set, headers, n) ==
    IF n = 0 THEN NoPass @@ [cells |-> <<>>]
    ELSE PairStep(pairCommands(rows, where, set, headers, n - 1),
                  matchesCondition(rows[n], where),
                  cellCommands(n + 1, set, headers))

BuildStep(sofar, pair, where) ==
    IF sofar.threw THEN sofar
    ELSE IF pair.threw THEN [sofar EXCEPT !.threw = TRUE, !.error = pair.error]
    ELSE [threw |-> FALSE, error |-> <<>>,
          cellUpdates |-> sofar.cellUpdates \o pair.cells,
          totalUpdated |-> sofar.totalUpdated + pair.matched,
          details |-> Append(sofar.details, [where |-> where, matched |-> pair.matched])]

\* the loop over the first n pairs
RECURSIVE buildUpdates(_, _, _, _)
buildUpdates(rows, updatesList, headers, n) ==
    IF n = 0 THEN NoBatch @@ [cellUpdates |-> <<>>]
    ELSE BuildStep(buildUpdates(rows, updatesList, headers, n - 1),
                   pairCommands(rows, updatesList[n].where, updatesList[n].set,
                                headers, Len(rows)),
                   updatesList[n].where)

ScriptOutcome(aoa, missing, built) ==
    IF missing # <<>>
    THEN [result |-> Failure(ColumnNotFound(missing[1])), file |-> aoa, commands |-> <<>>]
    ELSE IF built.threw
    THEN [result |-> Failure(built.error), file |-> aoa, commands |-> <<>>]
    ELSE [result |-> [done |-> TRUE, threw |-> FALSE, error |-> <<>>,
                      updatedCount |-> built.totalUpdated, details |-> built.details],
          file |-> updateCellsBatch(aoa, built.cellUpdates, Len(built.cellUpdates)),
          commands |-> built.cellUpdates]

ScriptOnTable(aoa, table, updatesList) ==
    ScriptOutcome(aoa,
                  MissingColumns(table.headers, allSetColumns(updatesList, Len(updatesList))),
                  buildUpdates(table.rows, updatesList, table.headers, Len(updatesList)))

batchUpdateRowsViaAppleScript(aoa, updatesList) ==
    ScriptOnTable(aoa, sheetToTable(aoa), updatesList)

\* the outcome of updateRowsViaAppleScript: missing are the set columns that
\* are not headers, built is the result of the row loop, keyCount is
\* Object.keys(set).length
UpdateScriptOutcome(aoa, missing, built, keyCount) ==
    IF missing # <<>>
    THEN [result |-> Failure(ColumnNotFound(missing[1])), file |-> aoa, commands |-> <<>>]
    ELSE IF built.threw
    THEN [result |-> Failure(built.error), file |-> aoa, commands |-> <<>>]
    ELSE IF Len(built.cells) = 0
    THEN [result |-> [done |-> TRUE, threw |-> FALSE, error |-> <<>>, updatedCount |-> 0],
          file |-> aoa, commands |-> <<>>]
    ELSE [result |-> [done |-> TRUE, threw |-> FALSE, error |-> <<>>,
                      updatedCount |-> Len(built.cells) \div keyCount],
          file |-> updateCellsBatch(aoa, built.cells, Len(built.cells)),
          commands |-> built.cells]

UpdateScriptOnTable(aoa, table, where, set) ==
    UpdateScriptOutcome(aoa,
                        MissingColumns(table.headers, ObjKeys(set)),
                        pairCommands(table.rows, where, set, table.headers, Len(table.rows)),
                        Len(set))

updateRowsViaAppleScript(aoa, where, set) ==
    UpdateScriptOnTable(aoa, sheetToTable(aoa), where, set)

\* Math.round((c / 255) * 65535)
ToNumbersChannel(c) == (2 * c * 65535 + 255) \div (2 * 255)

toNumbersColor(color) ==
    Color(ToNumbersChannel(color.v[1]), ToNumbersChannel(color.v[2]),
          ToNumbersChannel(color.v[3]))

\* the body of the row loop for the row at position n of the table (i = n - 1):
\* mapped is colorMap[cellValue]
ColorStep(sofar, n, mapped) ==
    IF ~Falsy(mapped)
    THEN Append(sofar, [rowIndex |-> n + 1, color |-> toNumbersColor(mapped)])
    ELSE sofar

\* rowColors after the first n rows; cellValue is String(rows[i][column] ?? "")
RECURSIVE rowColors(_, _, _, _)
rowColors(rows, column, colorMap, n) ==
    IF n = 0 THEN <<>>
    ELSE ColorStep(rowColors(rows, column, colorMap, n - 1), n,
                   ObjGet(colorMap,
                          ToStringChars(Coalesce(ObjGet(rows[n], column), Str(<<>>)))))

\* the commands are the `set background color of row r` lines of the script
ColorOutcome(aoa, colIndex, column, colored) ==
    IF colIndex = 0
    THEN [result |-> Failure(ColumnNotFound(column)), file |-> aoa, commands |-> <<>>]
    ELSE [result |-> [done |-> TRUE, threw |-> FALSE, error |-> <<>>,
                      coloredCount |-> Len(colored)],
          file |-> aoa,
          commands |-> colored]

ColorOnTable(aoa, table, column, colorMap) ==
    ColorOutcome(aoa, ColumnIndex(table.headers, column), column,
                 rowColors(table.rows, column, colorMap, Len(table.rows)))

colorRowsByValue(aoa, column, colorMap) ==
    ColorOnTable(aoa, sheetToTable(aoa), column, colorMap)

(***************************************************************************)
(* Spec: one mutation call on a sheet with the headers id and p.  Column x *)
(* is not a header.                                                        *)
(***************************************************************************)
BatchHeaders == <<"id", "p">>

P0 == Str(<<"P", "0">>)
P1 == Str(<<"P", "1">>)

BatchRows == {<<Num(1), Null>>, <<Num(1), P0>>, <<Num(2), P0>>}

BatchSheets ==
    UNION {{<<BatchHeaders>> \o r : r \in [1..n -> BatchRows]} : n \in 0..MaxBatchRows}

BatchWheres ==
    {<<Literal("id", Num(1))>>,
     <<Literal("p", P0)>>,
     <<Literal("x", P0)>>,
     <<Literal("p", P1), Operator("id", "eq", Num(1))>>}

BatchSets ==
    {<<<<"p", P0>>>>,
     <<<<"p", P1>>>>,
     <<<<"x", P0>>>>}

\* the sheets of the single mutations
MutSheets ==
    UNION {{<<BatchHeaders>> \o r : r \in [1..n -> BatchRows]} : n \in 0..MaxMutRows}

BatchPairs == {[where |-> w, set |-> s] : w \in BatchWheres, s \in BatchSets}

BatchLists == UNION {[1..n -> BatchPairs] : n \in 0..MaxPairs}

Idle == [op |-> "idle"]

Init ==
    /\ file \in BatchSheets \cup MutSheets
    /\ before = file
    /\ call = Idle
    /\ result = NoResult
    /\ commands = <<>>

\* the call ends: its result is returned and its writes are on disk
Finish(out) ==
    /\ result' = out.result
    /\ file' = out.file
    /\ commands' = out.commands
    /\ UNCHANGED before

BatchUpdateTableRows ==
    /\ call = Idle
    /\ file \in BatchSheets
    /\ \E u \in BatchLists :
          /\ call' = [op |-> "batchUpdateTableRows", updates |-> u]
          /\ Finish(batchUpdateTableRows(file, u))

BatchUpdateRowsViaAppleScript ==
    /\ call = Idle
    /\ file \in BatchSheets
    /\ \E u \in BatchLists :
          /\ call' = [op |-> "batchUpdateRowsViaAppleScript", updates |-> u]
          /\ Finish(batchUpdateRowsViaAppleScript(file, u))

\* the conditions of a single update, delete or find: those of a batch pair,
\* the empty condition, a comparison, and an unknown operator behind a clause
\* that rows as loaded can pass
MutWheres ==
    BatchWheres \cup
        {<<>>,
         <<Operator("id", "gt", Num(1))>>,
         <<Literal("p", P0), Operator("id", "eq", Num(1))>>}

MutSets ==
    BatchSets \cup
        {<<>>,
         <<<<"p", Null>>>>,
         <<<<"id", Num(2)>>, <<"p", P1>>>>,
         <<<<"p", P0>>, <<"x", P1>>>>}

NewRowObjects ==
    {<<>>,
     <<<<"id", Num(3)>>>>,
     <<<<"x", P0>>, <<"id", Num(3)>>>>,
     <<<<"y", P1>>, <<"x", P0>>>>,
     <<<<"p", P1>>, <<"y", P0>>>>}

NewRows ==
    {OneRow(r) : r \in NewRowObjects}
        \cup {ManyRows(rs) : rs \in UNION {[1..n -> NewRowObjects] : n \in 0..MaxNewRows}}

UpdateTableRows ==
    /\ call = Idle
    /\ \E w \in MutWheres, s \in MutSets :
          /\ call' = [op |-> "updateTableRows", where |-> w, set |-> s]
          /\ Finish(updateTableRows(file, w, s))

DeleteTableRows ==
    /\ call = Idle
    /\ \E w \in MutWheres :
          /\ call' = [op |-> "deleteTableRows", where |-> w]
          /\ Finish(deleteTableRows(file, w))

AddTableRows ==
    /\ call = Idle
    /\ \E r \in NewRows :
          /\ call' = [op |-> "addTableRows", newRows |-> r]
          /\ Finish(addTableRows(file, r))

UpdateRowsViaAppleScript ==
    /\ call = Idle
    /\ \E w \in MutWheres, s \in MutSets :
          /\ call' = [op |-> "updateRowsViaAppleScript", where |-> w, set |-> s]
          /\ Finish(updateRowsViaAppleScript(file, w, s))

\* findRows on the rows of the sheet; nothing is written
FindRows ==
    /\ call = Idle
    /\ \E w \in MutWheres :
          /\ call' = [op |-> "findRows", where |-> w]
          /\ result' = [done |-> TRUE] @@ findRows(sheetToTable(file).rows, w)
          /\ UNCHANGED <<file, before, commands>>

ColorColumns == {"id", "p", "x"}

\* color maps, keyed by the characters of the value
ColorMaps ==
    {<<>>,
     <<<<<<"1">>, Color(255, 0, 0)>>>>,
     <<<<<<"P", "0">>, Color(0, 0, 200)>>, <<<<>>, Color(100, 0, 0)>>>>,
     <<<<<<"n", "u", "l", "l">>, Color(255, 0, 0)>>, <<<<"2">>, Color(0, 0, 200)>>>>}

ColorRowsByValue ==
    /\ call = Idle
    /\ \E c \in ColorColumns, m \in ColorMaps :
          /\ call' = [op |-> "colorRowsByValue", column |-> c, colorMap |-> m]
          /\ Finish(colorRowsByValue(file, c, m))

Next ==
    \/ ColorRowsByValue
    \/ BatchUpdateTableRows
    \/ BatchUpdateRowsViaAppleScript
    \/ UpdateTableRows
    \/ DeleteTableRows
    \/ AddTableRows
    \/ UpdateRowsViaAppleScript
    \/ FindRows

Spec == Init /\ [][Next]_vars

\* the table the call loaded
Loaded == sheetToTable(before)

\* the positions of the rows that match where
Matching(rows, where) == {i \in DOMAIN rows : matchesCondition(rows[i], where).value}

\* Update with one pair: every matching row gets the keys of set overwritten
UpdateRows(rows, pair) ==
    [i \in DOMAIN rows |->
        IF i \in Matching(rows, pair.where)
        THEN assignAll(rows[i], pair.set, Len(pair.set))
        ELSE rows[i]]

\* the left fold of Update over the first n pairs
RECURSIVE FoldUpdate(_, _, _)
FoldUpdate(rows, updates, n) ==
    IF n = 0 THEN rows ELSE UpdateRows(FoldUpdate(rows, updates, n - 1), updates[n])

RECURSIVE SumMatched(_, _)
SumMatched(details, n) ==
    IF n = 0 THEN 0 ELSE SumMatched(details, n - 1) + details[n].matched

\* the pairs that, in the fold, match row i and set column col
Setters(i, col) ==
    {k \in DOMAIN call.updates :
        /\ i \in Matching(FoldUpdate(Loaded.rows, call.updates, k - 1), call.updates[k].where)
        /\ HasKey(call.updates[k].set, col)}

Last(S) == CHOOSE k \in S : \A l \in S : l <= k

BatchDone == call.op = "batchUpdateTableRows" /\ result.done /\ ~result.threw

\* C9: batchUpdateTableRows is the left fold of Update over the pairs: pair k
\* is matched against the rows as left by pairs 1..k-1, details has one entry
\* per pair in order with that match count, updatedCount is their sum, and a
\* header cell set by several pairs persists the value of the last of them.
C9_BatchIsSequentialFold ==
    BatchDone
        => /\ Len(result.details) = Len(call.updates)
           /\ \A k \in DOMAIN call.updates :
                /\ result.details[k].where = call.updates[k].where
                /\ result.details[k].matched =
                     Cardinality(Matching(FoldUpdate(Loaded.rows, call.updates, k - 1),
                                          call.updates[k].where))
           /\ result.updatedCount = SumMatched(result.details, Len(result.details))
           /\ file = writeWorkbook(Loaded.headers,
                                   FoldUpdate(Loaded.rows, call.updates, Len(call.updates)))
           /\ \A i \in DOMAIN Loaded.rows, j \in DOMAIN Loaded.headers :
                IF Setters(i, Loaded.headers[j]) = {}
                THEN file[i + 1][j] = before[i + 1][j]
                ELSE file[i + 1][j] =
                       Coalesce(ObjGet(call.updates[Last(Setters(i, Loaded.headers[j]))].set,
                                       Loaded.headers[j]), Null)

\* the second pair matches only the row the first pair changed, and both set p
C9_Witness ==
    /\ BatchDone
    /\ Len(call.updates) = 2
    /\ result.details[1].matched = 1
    /\ result.details[2].matched = 1
    /\ Matching(Loaded.rows, call.updates[2].where) = {}
    /\ HasKey(call.updates[1].set, "p")
    /\ HasKey(call.updates[2].set, "p")
    /\ result.updatedCount > Len(Loaded.rows)
    /\ file # before

ScriptDone == call.op = "batchUpdateRowsViaAppleScript" /\ result.done /\ ~result.threw

\* C10: batchUpdateRowsViaAppleScript applies its pairs sequentially: when all
\* set columns are headers, its details, its updatedCount and the cells it
\* leaves written are those of the sequential fold of batchUpdateTableRows.
C10_ScriptBatchIsSequentialFold ==
    (ScriptDone /\ ~batchUpdateTableRows(before, call.updates).result.threw)
        => /\ result.details = batchUpdateTableRows(before, call.updates).result.details
           /\ result.updatedCount =
                batchUpdateTableRows(before, call.updates).result.updatedCount
           /\ file = batchUpdateTableRows(before, call.updates).file

UpdateDone == call.op = "updateTableRows" /\ result.done /\ ~result.threw

\* C11: after updateTableRows every row that matched where (on its values as
\* loaded) holds set[k] in every header column k of set, every other cell is
\* unchanged, the rows keep their number and order, and updatedCount is the
\* number of matching rows.
C11_UpdateFrame ==
    UpdateDone
        => /\ Len(file) = Len(before)
           /\ result.updatedCount = Cardinality(Matching(Loaded.rows, call.where))
           /\ \A i \in DOMAIN Loaded.rows :
                /\ Len(file[i + 1]) = Len(Loaded.headers)
                /\ \A j \in DOMAIN Loaded.headers :
                     IF i \in Matching(Loaded.rows, call.where)
                            /\ HasKey(call.set, Loaded.headers[j])
                     THEN file[i + 1][j] = ObjGet(call.set, Loaded.headers[j])
                     ELSE file[i + 1][j] = before[i + 1][j]

\* a row that matches is changed in one of two set columns, a row that does
\* not match lies between or beside it
C11_Witness ==
    /\ UpdateDone
    /\ Len(Loaded.rows) = 3
    /\ Matching(Loaded.rows, call.where) = {1, 3}
    /\ Len(call.set) = 2
    /\ HasKey(call.set, "id")
    /\ file[2] # before[2]
    /\ file[3] = before[3]
    /\ result.updatedCount = 2

\* the set of the call names a column that is not a header
SetsUnknownColumn ==
    /\ call.op = "updateTableRows"
    /\ result.done
    /\ \E k \in DOMAIN call.set : IndexIn(Loaded.headers, call.set[k][1]) = 0

\* C12: updateTableRows never rejects a set column that is not a header: the
\* call does not fail with a column error, updatedCount counts every matching
\* row, and the persisted headers are the original headers in their order.
C12_UpdateAcceptsUnknownColumn ==
    SetsUnknownColumn
        => /\ result.threw => result.error[1] = "Unknown operator"
           /\ ~result.threw
                => /\ result.updatedCount = Cardinality(Matching(Loaded.rows, call.where))
                   /\ file[1] = before[1]
                   /\ \A i \in DOMAIN file : Len(file[i]) = Len(before[1])

C12_Witness ==
    /\ SetsUnknownColumn
    /\ ~result.threw
    /\ HasKey(call.set, "x")
    /\ HasKey(call.set, "p")
    /\ result.updatedCount >= 1
    /\ file # before

AddDone == call.op = "addTableRows" /\ result.done /\ ~result.threw

Added == IF call.newRows.isArray THEN call.newRows.rows ELSE <<call.newRows.row>>

\* the keys of the first n inserted rows, row after row
RECURSIVE KeysOf(_, _)
KeysOf(rows, n) == IF n = 0 THEN <<>> ELSE KeysOf(rows, n - 1) \o ObjKeys(rows[n])

\* the first occurrences of a sequence, in order
FirstSeen(seq) ==
    SelectSeq([i \in DOMAIN seq |-> IF \E h \in 1..(i - 1) : seq[h] = seq[i] THEN "" ELSE seq[i]],
              LAMBDA k : k # "")

NewHeaders ==
    SelectSeq(FirstSeen(KeysOf(Added, Len(Added))), LAMBDA k : IndexIn(Loaded.headers, k) = 0)

\* C13: addTableRows persists the original headers in their order followed by
\* the new keys of the inserted rows in the order first encountered, without
\* duplicates; the existing rows keep their order and cells, the inserted rows
\* follow in the given order; addedCount is the number of inserted rows and
\* totalRows the original row count plus addedCount.
C13_AddExtendsHeaders ==
    AddDone
        => /\ file[1] = Loaded.headers \o NewHeaders
           /\ Len(file) = Len(before) + Len(Added)
           /\ \A i \in DOMAIN Loaded.rows :
                /\ SubSeq(file[i + 1], 1, Len(Loaded.headers)) = before[i + 1]
                /\ \A j \in (Len(Loaded.headers) + 1)..Len(file[1]) : file[i + 1][j] = Null
           /\ \A k \in DOMAIN Added :
                file[Len(before) + k] =
                    [j \in DOMAIN file[1] |-> Coalesce(ObjGet(Added[k], file[1][j]), Null)]
           /\ result.addedCount = Len(Added)
           /\ result.totalRows = Len(Loaded.rows) + result.addedCount

\* two rows are inserted after existing rows; the second brings a key the
\* first already brought and a new one
C13_Witness ==
    /\ AddDone
    /\ call.newRows.isArray
    /\ Len(Added) = 2
    /\ Len(Loaded.rows) >= 1
    /\ HasKey(Added[1], "x") /\ HasKey(Added[1], "id")
    /\ HasKey(Added[2], "x") /\ HasKey(Added[2], "y")
    /\ file[1] = <<"id", "p", "x", "y">>

DeleteDone == call.op = "deleteTableRows" /\ result.done /\ ~result.threw

\* the positions of the rows that do not match, in order
Kept ==
    SelectSeq([i \in DOMAIN Loaded.rows |-> i],
              LAMBDA i : i \notin Matching(Loaded.rows, call.where))

\* C14: deleteTableRows persists the unchanged headers and the non-matching
\* rows in their original relative order with unchanged cells; remainingRows
\* is their number and deletedCount + remainingRows is the original row count.
C14_DeleteRemovesMatching ==
    DeleteDone
        => /\ file = <<before[1]>> \o [k \in DOMAIN Kept |-> before[Kept[k] + 1]]
           /\ result.remainingRows = Len(Kept)
           /\ result.deletedCount + result.remainingRows = Len(Loaded.rows)

\* the middle row of three is deleted and the two others differ
C14_Witness ==
    /\ DeleteDone
    /\ Len(Loaded.rows) = 3
    /\ Kept = <<1, 3>>
    /\ before[2] # before[4]
    /\ result.deletedCount = 1

(***************************************************************************)
(* Color detection.  A row color is Null (no color) or Color(r, g, b) with *)
(* channels 0..255; a Map is the sequence of its <<key, value>> entries in *)
(* insertion order, keyed here by the characters of a string.              *)
(***************************************************************************)
\* map.get(key) || fallback
MapGet(map, key, fallback) == IF HasKey(map, key) THEN ObjGet(map, key) ELSE fallback

\* Math.round(c / 10) * 10 for a channel c >= 0
RoundToTen(c) == ((c + 5) \div 10) * 10

\* the key `${r},${g},${b}` of the rounded channels
colorKey(color) == <<RoundToTen(color.v[1]), RoundToTen(color.v[2]), RoundToTen(color.v[3])>>

\* colors[i]
ColorOfRow(colors, i) == IF i \in DOMAIN colors THEN colors[i] ELSE Undefined

NoTally == [valueColors |-> <<>>, valueNullCount |-> <<>>, coloredRows |-> 0]

\* the body of the row loop: value is String(rows[i][column] ?? "")
TallyStep(sofar, value, color) ==
    IF ~Falsy(color)
    THEN [sofar EXCEPT !.coloredRows = @ + 1,
                       !.valueColors = ObjSet(@, value, Append(MapGet(@, value, <<>>), color))]
    ELSE [sofar EXCEPT !.valueNullCount = ObjSet(@, value, MapGet(@, value, 0) + 1)]

\* the row loop over the first n rows
RECURSIVE tallyRows(_, _, _, _)
tallyRows(rows, column, colors, n) ==
    IF n = 0 THEN NoTally
    ELSE TallyStep(tallyRows(rows, column, colors, n - 1),
                   ToStringChars(Coalesce(ObjGet(rows[n], column), Str(<<>>))),
                   ColorOfRow(colors, n))

\* colorCounts after one more color with the given key
CountStep(colorCounts, color, key) ==
    IF HasKey(colorCounts, key)
    THEN ObjSet(colorCounts, key, [ObjGet(colorCounts, key) EXCEPT !.count = @ + 1])
    ELSE ObjSet(colorCounts, key, [count |-> 1, color |-> color])

\* colorCounts of the first n colors of a value
RECURSIVE countColors(_, _)
countColors(colors, n) ==
    IF n = 0 THEN <<>>
    ELSE CountStep(countColors(colors, n - 1), colors[n], colorKey(colors[n]))

NoDominant == [maxCount |-> 0, dominantColor |-> Null]

\* a scan in which a later bucket with the same count replaces the dominant one
DominantStepLastWins(sofar, entry) ==
    IF entry.count >= sofar.maxCount
    THEN [maxCount |-> entry.count, dominantColor |-> entry.color]
    ELSE sofar

\* if (count > maxCount) { maxCount = count; dominantColor = color }
DominantStep(sofar, entry) ==
    IF entry.count > sofar.maxCount
    THEN [maxCount |-> entry.count, dominantColor |-> entry.color]
    ELSE sofar

\* the scan of the first n entries of colorCounts
RECURSIVE dominantOf(_, _)
dominantOf(colorCounts, n) ==
    IF n = 0 THEN NoDominant
    ELSE DominantStep(dominantOf(colorCounts, n - 1), colorCounts[n][2])

DominantColor(colorCounts) == dominantOf(colorCounts, Len(colorCounts))

\* maxCount / totalForValue >= 0.8
Consistent(maxCount, totalForValue) == maxCount * 10 >= totalForValue * 8

\* a consistency check whose denominator leaves out the uncolored rows
ValueStepColoredOnly(sofar, value, colors, nullCount, dominant) ==
    IF Len(colors) = 0
    THEN [colorMap |-> ObjSet(sofar.colorMap, value, Null),
          consistentMappings |-> sofar.consistentMappings + 1,
          totalMappings |-> sofar.totalMappings + 1]
    ELSE [colorMap |-> ObjSet(sofar.colorMap, value, dominant.dominantColor),
          consistentMappings |->
              IF Consistent(dominant.maxCount, Len(colors))
              THEN sofar.consistentMappings + 1 ELSE sofar.consistentMappings,
          totalMappings |-> sofar.totalMappings + 1]

\* the body of the loop over allValues
ValueStep(sofar, value, colors, nullCount, dominant) ==
    IF Len(colors) = 0
    THEN [colorMap |-> ObjSet(sofar.colorMap, value, Null),
          consistentMappings |-> sofar.consistentMappings + 1,
          totalMappings |-> sofar.totalMappings + 1]
    ELSE [colorMap |-> ObjSet(sofar.colorMap, value, dominant.dominantColor),
          consistentMappings |->
              IF Consistent(dominant.maxCount, Len(colors) + nullCount)
              THEN sofar.consistentMappings + 1 ELSE sofar.consistentMappings,
          totalMappings |-> sofar.totalMappings + 1]

ValueOf(sofar, value, colors, nullCount) ==
    ValueStep(sofar, value, colors, nullCount, DominantColor(countColors(colors, Len(colors))))

NoMappings == [colorMap |-> <<>>, consistentMappings |-> 0, totalMappings |-> 0]

\* the loop over the first n of allValues
RECURSIVE mapValues(_, _, _)
mapValues(tally, allValues, n) ==
    IF n = 0 THEN NoMappings
    ELSE ValueOf(mapValues(tally, allValues, n - 1), allValues[n],
                 MapGet(tally.valueColors, allValues[n], <<>>),
                 MapGet(tally.valueNullCount, allValues[n], 0))

\* new Set([...valueColors.keys(), ...valueNullCount.keys()])
AllValues(tally) ==
    SetAddAll(SetAddAll(<<>>, ObjKeys(tally.valueColors)), ObjKeys(tally.valueNullCount))

\* Math.round((num / den) * 100), the number in hundredths
RoundedHundredths(num, den) == (200 * num + den) \div (2 * den)

\* confidence is kept in hundredths: 67 is 0.67
MappingResult(mappings, coloredRows) ==
    [done |-> TRUE, threw |-> FALSE, error |-> <<>>,
     colorMap |-> mappings.colorMap,
     confidence |-> IF mappings.totalMappings > 0
                    THEN RoundedHundredths(mappings.consistentMappings, mappings.totalMappings)
                    ELSE 0,
     sampleSize |-> coloredRows]

MappingOfTally(tally) ==
    MappingResult(mapValues(tally, AllValues(tally), Len(AllValues(tally))), tally.coloredRows)

MappingOnTable(table, column, colors) ==
    IF IndexIn(table.headers, column) = 0
    THEN Failure(ColumnNotFound(column))
    ELSE MappingOfTally(tallyRows(table.rows, column, colors, Len(table.rows)))

\* colors is what getRowColors reads from the document, one entry per row
detectColorMapping(aoa, column, colors) == MappingOnTable(sheetToTable(aoa), column, colors)

(***************************************************************************)
(* SpecColors: one detectColorMapping call on a sheet with the one column  *)
(* v, every row with its cell and its color.                               *)
(***************************************************************************)
ColorHeaders == <<"v">>

ValueA == Str(<<"a">>)

\* 100 and 104 round to 100, 105 rounds to 110
Red100 == Color(100, 0, 0)
Red104 == Color(104, 0, 0)
Red105 == Color(105, 0, 0)
Blue == Color(0, 0, 200)

\* the rows: a cell and the color observed on the row
ColoredRows ==
    {[cell |-> ValueA, color |-> Red100],
     [cell |-> ValueA, color |-> Red104],
     [cell |-> ValueA, color |-> Red105],
     [cell |-> Null, color |-> Null],
     [cell |-> Str(<<>>), color |-> Blue],
     [cell |-> Num(1), color |-> Blue]}

Observations == UNION {[1..n -> ColoredRows] : n \in 0..MaxColorRows}

ColorSheet(obs) == <<ColorHeaders>> \o [i \in DOMAIN obs |-> <<obs[i].cell>>]

ColorsRead(obs) == [i \in DOMAIN obs |-> obs[i].color]

InitColors ==
    /\ \E obs \in Observations :
          /\ file = ColorSheet(obs)
          /\ call \in {[op |-> "detectColorMapping", column |-> c, colors |-> ColorsRead(obs)] :
                          c \in IF Len(obs) <= 1 THEN {"v", "zz"} ELSE {"v"}}
    /\ before = file
    /\ result = NoResult
    /\ commands = <<>>

DetectColorMapping ==
    /\ call.op = "detectColorMapping"
    /\ ~result.done
    /\ result' = detectColorMapping(file, call.column, call.colors)
    /\ UNCHANGED <<file, call, before, commands>>

NextColors == DetectColorMapping

SpecColors == InitColors /\ [][NextColors]_vars

ColorsDone == call.op = "detectColorMapping" /\ result.done /\ ~result.threw

\* the stringified value of row i in the column, null as the empty string
RowValue(i) == ToStringChars(Coalesce(ObjGet(Loaded.rows[i], call.column), Str(<<>>)))

DistinctValues == {RowValue(i) : i \in DOMAIN Loaded.rows}

RowsOf(value) == {i \in DOMAIN Loaded.rows : RowValue(i) = value}

ColoredOf(value) == {i \in RowsOf(value) : call.colors[i] # Null}

\* the colored rows of the value whose color is in the bucket of row i's color
BucketOf(value, i) ==
    {j \in ColoredOf(value) : colorKey(call.colors[j]) = colorKey(call.colors[i])}

First(S) == CHOOSE i \in S : \A j \in S : i <= j

\* row i is the first row of the largest bucket of the value, the bucket met
\* first among the largest
Wins(value, i) ==
    /\ i \in ColoredOf(value)
    /\ i = First(BucketOf(value, i))
    /\ \A j \in ColoredOf(value) :
          \/ Cardinality(BucketOf(value, j)) < Cardinality(BucketOf(value, i))
          \/ /\ Cardinality(BucketOf(value, j)) = Cardinality(BucketOf(value, i))
             /\ First(BucketOf(value, j)) >= i

\* C15: colorMap has one entry per distinct stringified value; the entry is
\* null iff no row of the value has a color, else it is the first-seen color
\* of the largest bucket of rounded colors of the value, the bucket met first
\* in row order when several are largest.
C15_DominantColor ==
    ColorsDone
        => /\ {result.colorMap[k][1] : k \in DOMAIN result.colorMap} = DistinctValues
           /\ Len(result.colorMap) = Cardinality(DistinctValues)
           /\ \A value \in DistinctValues :
                IF ColoredOf(value) = {}
                THEN ObjGet(result.colorMap, value) = Null
                ELSE \E i \in ColoredOf(value) :
                        /\ Wins(value, i)
                        /\ ObjGet(result.colorMap, value) = call.colors[i]

\* two buckets of the value a tie with two rows each, and a value without color
C15_Witness ==
    /\ ColorsDone
    /\ call.colors = <<Red104, Red105, Red100, Red105, Null>>
    /\ RowsOf(<<"a">>) = 1..4
    /\ ObjGet(result.colorMap, <<"a">>) = Red104
    /\ ObjGet(result.colorMap, <<>>) = Null

DominantCount(value) ==
    CHOOSE n \in 0..Len(call.colors) :
        /\ \A i \in ColoredOf(value) : Cardinality(BucketOf(value, i)) <= n
        /\ ColoredOf(value) # {} => \E i \in ColoredOf(value) : Cardinality(BucketOf(value, i)) = n
        /\ ColoredOf(value) = {} => n = 0

ConsistentValue(value) ==
    \/ ColoredOf(value) = {}
    \/ 5 * DominantCount(value) >= 4 * Cardinality(RowsOf(value))

ConsistentValues == {value \in DistinctValues : ConsistentValue(value)}

Distance(a, b) == IF a >= b THEN a - b ELSE b - a

\* C16: a value is consistent iff it has no colored row or its dominant bucket
\* holds at least 0.8 of all its rows, colored or not; confidence (in
\* hundredths) is consistent values over distinct values rounded to the
\* nearest hundredth, 0 without rows; sampleSize is the number of colored rows.
C16_Confidence ==
    ColorsDone
        => /\ IF DistinctValues = {}
              THEN result.confidence = 0
              ELSE 2 * Distance(result.confidence * Cardinality(DistinctValues),
                                100 * Cardinality(ConsistentValues))
                       <= Cardinality(DistinctValues)
           /\ result.sampleSize =
                Cardinality({i \in DOMAIN call.colors : call.colors[i] # Null})

\* four of the five rows of the one value are in the dominant bucket, the
\* fifth is a null cell without color
C16_Witness ==
    /\ ColorsDone
    /\ call.colors = <<Blue, Blue, Null, Blue, Blue>>
    /\ before[4] = <<Null>>
    /\ RowsOf(<<>>) = 1..5
    /\ result.confidence = 100
    /\ result.sampleSize = 4

\* a finished findRows, updateTableRows or deleteTableRows call whose condition
\* has no clause
EmptyWhereDone ==
    /\ call.op \in {"findRows", "updateTableRows", "deleteTableRows"}
    /\ result.done
    /\ call.where = <<>>

\* C17: a condition with zero clauses matches every row: findRows returns all
\* rows in order, updateTableRows updates every row and deleteTableRows deletes
\* every row.
C17_EmptyConditionMatchesAll ==
    EmptyWhereDone
        => /\ ~result.threw
           /\ \A i \in DOMAIN Loaded.rows : matchesCondition(Loaded.rows[i], <<>>).value
           /\ call.op = "findRows" => result.rows = Loaded.rows
           /\ call.op = "updateTableRows"
                => /\ result.updatedCount = Len(Loaded.rows)
                   /\ \A i \in DOMAIN Loaded.rows, j \in DOMAIN Loaded.headers :
                        HasKey(call.set, Loaded.headers[j])
                            => file[i + 1][j] = ObjGet(call.set, Loaded.headers[j])
           /\ call.op = "deleteTableRows"
                => /\ result.deletedCount = Len(Loaded.rows)
                   /\ result.remainingRows = 0
                   /\ file = <<before[1]>>

\* three differing rows are all updated by a call without clauses
C17_Witness ==
    /\ EmptyWhereDone
    /\ call.op = "updateTableRows"
    /\ Len(Loaded.rows) = 3
    /\ before[2] # before[3]
    /\ before[3] # before[4]
    /\ result.updatedCount = 3
    /\ \A i \in 2..4 : file[i] = <<Num(2), P1>>

\* the condition without its k-th clause
WithoutClause(where, k) == SubSeq(where, 1, k - 1) \o SubSeq(where, k + 1, Len(where))

\* the orders of the clauses of the condition
Reorderings(where) ==
    {[i \in DOMAIN where |-> where[p[i]]] :
        p \in {q \in [DOMAIN where -> DOMAIN where] :
                 \A i, j \in DOMAIN where : i # j => q[i] # q[j]}}

AllRecognized(where) == \A i \in DOMAIN where : where[i].isOp => where[i].op \in KnownOps

\* C18: matching is a monotonic AND: a condition that matches a row still
\* matches it without any one of its clauses, so adding a clause never turns a
\* non-match into a match; and the result of a condition of recognized
\* operators is the same in every order of its clauses.
C18_MonotonicAnd ==
    MatchDone
        => /\ (~result.threw /\ result.value)
                => \A k \in DOMAIN call.where :
                      /\ AllRecognized(WithoutClause(call.where, k))
                      /\ matchesCondition(call.row, WithoutClause(call.where, k)) = Returned(TRUE)
           /\ AllRecognized(call.where)
                => \A w \in Reorderings(call.where) :
                      matchesCondition(call.row, w) = matchesCondition(call.row, call.where)
           /\ AllRecognized(call.where) => ~result.threw

\* a comparison and a literal on two columns both pass
C18_Witness ==
    /\ MatchDone
    /\ Len(call.where) = 2
    /\ call.where[1].isOp /\ call.where[1].op = "gt"
    /\ ~call.where[2].isOp
    /\ ~result.threw
    /\ result.value

ScriptUpdateDone == call.op = "updateRowsViaAppleScript" /\ result.done /\ ~result.threw

\* C19: updateRowsViaAppleScript returns updatedCount equal to the number of
\* rows matching where, the value updateTableRows returns on the same input,
\* for every set whose columns are all headers, a set without columns included.
C19_ScriptUpdateCount ==
    ScriptUpdateDone
        => /\ result.updatedCount = Cardinality(Matching(Loaded.rows, call.where))
           /\ result.updatedCount =
                updateTableRows(before, call.where, call.set).result.updatedCount

MutationOps ==
    {"updateTableRows", "deleteTableRows", "batchUpdateTableRows",
     "updateRowsViaAppleScript", "batchUpdateRowsViaAppleScript"}

\* a mutation call that failed with an unknown-operator or column-not-found error
FailedMutation ==
    /\ call.op \in MutationOps
    /\ result.done
    /\ result.threw
    /\ result.error[1] \in {"Unknown operator", "Column not found"}

\* C20: a mutation call that fails with an unknown-operator or column-not-found
\* error leaves the persisted table as it was before the call and writes no
\* cell, also when earlier rows or pairs had been changed in memory.
C20_FailedMutationWritesNothing ==
    FailedMutation => file = before /\ commands = <<>>

\* the first pair of a batch sets p to P1 on a matching row, the second pair
\* throws on that row, which passes its first clause only after the change
C20_Witness ==
    /\ FailedMutation
    /\ call.op = "batchUpdateTableRows"
    /\ Len(call.updates) = 2
    /\ call.updates[1].set = <<<<"p", P1>>>>
    /\ Matching(Loaded.rows, call.updates[1].where) # {}
    /\ call.updates[2].where[1] = Literal("p", P1)
    /\ result.error = <<"Unknown operator", "eq">>
    /\ file = before

CommandOps == {"colorRowsByValue", "updateRowsViaAppleScript", "batchUpdateRowsViaAppleScript"}

\* the document rows of the table rows at the given positions
DocumentRows(positions) == {i + 1 : i \in positions}

\* the stringified cell of row i in the column, null as the empty string
CellString(i) == ToStringChars(Coalesce(ObjGet(Loaded.rows[i], call.column), Str(<<>>)))

\* the positions of the rows whose stringified cell is a key of colorMap
Keyed == {i \in DOMAIN Loaded.rows : HasKey(call.colorMap, CellString(i))}

\* the command addresses a set column of the pair on a row its where selected
Addresses(command, where, set) ==
    /\ command.rowIndex \in DocumentRows(Matching(Loaded.rows, where))
    /\ HasKey(set, Loaded.headers[command.colIndex])
    /\ command.value = ObjGet(set, Loaded.headers[command.colIndex])

\* C21: every command of colorRowsByValue, updateRowsViaAppleScript and
\* batchUpdateRowsViaAppleScript addresses the table row at 0-based position i
\* as rowIndex i + 2, within 2..rowCount+1 and never the header row, and a
\* column by its 1-based position in headers; colorRowsByValue emits one
\* command for exactly the rows whose stringified cell is a key of colorMap
\* and returns their number as coloredCount.
C21_CommandsAddressDataRows ==
    (call.op \in CommandOps /\ result.done)
        => /\ \A k \in DOMAIN commands :
                commands[k].rowIndex \in 2..(Len(Loaded.rows) + 1)
           /\ call.op = "colorRowsByValue" /\ ~result.threw
                => /\ result.coloredCount = Cardinality(Keyed)
                   /\ Len(commands) = Cardinality(Keyed)
                   /\ {commands[k].rowIndex : k \in DOMAIN commands} = DocumentRows(Keyed)
                   /\ \A k \in DOMAIN commands :
                        commands[k].color =
                            toNumbersColor(ObjGet(call.colorMap,
                                                  CellString(commands[k].rowIndex - 1)))
           /\ call.op = "updateRowsViaAppleScript"
                => /\ \A k \in DOMAIN commands :
                        /\ commands[k].colIndex \in 1..Len(Loaded.headers)
                        /\ Addresses(commands[k], call.where, call.set)
                   /\ {commands[k].rowIndex : k \in DOMAIN commands} \in
                        {{}, DocumentRows(Matching(Loaded.rows, call.where))}
           /\ call.op = "batchUpdateRowsViaAppleScript"
                => \A k \in DOMAIN commands :
                        /\ commands[k].colIndex \in 1..Len(Loaded.headers)
                        /\ \E n \in DOMAIN call.updates :
                              Addresses(commands[k], call.updates[n].where, call.updates[n].set)

\* the first and the third of three rows are colored, the row between them,
\* whose cell is not a key, is not
C21_Witness ==
    /\ call.op = "colorRowsByValue"
    /\ result.done
    /\ ~result.threw
    /\ call.column = "id"
    /\ Len(Loaded.rows) = 3
    /\ Keyed = {1, 3}
    /\ result.coloredCount = 2
    /\ commands[1].rowIndex = 2
    /\ commands[2].rowIndex = 4

(***************************************************************************)
(* SpecRace: two update calls on the same file.  Each call loads the file  *)
(* and evaluates where on what it loaded in one step, and persists in a    *)
(* later step: updateRowsViaAppleScript awaits the script that writes its  *)
(* cells, so that another call of the server runs in between;              *)
(* updateTableRows reads and writes synchronously, so that its two steps   *)
(* are separated only by calls made from another process.  A call that     *)
(* throws, or that has no cell to write, returns after its load step.      *)
(***************************************************************************)
RaceKinds == {"updateTableRows", "updateRowsViaAppleScript"}

RaceWheres ==
    {<<Literal("id", Num(1))>>,
     <<Literal("p", P0)>>}

RaceSets ==
    {<<<<"p", P1>>>>,
     <<<<"p", Null>>>>,
     <<<<"id", Num(2)>>, <<"p", P1>>>>,
     <<<<"x", P0>>>>}

RaceCalls == {[kind |-> k, where |-> w, set |-> s] : k \in RaceKinds, w \in RaceWheres, s \in RaceSets}

NoPending == [result |-> NoResult, file |-> NoFile, commands |-> <<>>]

\* both calls are issued and neither has loaded the file
RaceStart ==
    [pc |-> <<"load", "load">>,
     loaded |-> <<NoFile, NoFile>>,
     pending |-> <<NoPending, NoPending>>,
     persisted |-> <<>>]

InitRace ==
    /\ file \in BatchSheets
    /\ before = file
    /\ call \in {[op |-> "race", calls |-> <<a, b>>] : a \in RaceCalls, b \in RaceCalls}
    /\ result = RaceStart
    /\ commands = <<>>

\* what the call computes from the file it loads
RunCall(c, aoa) ==
    IF c.kind = "updateTableRows"
    THEN updateTableRows(aoa, c.where, c.set)
    ELSE updateRowsViaAppleScript(aoa, c.where, c.set)

\* the call returns without persisting: it threw, or updates.length === 0
ReturnsEarly(kind, out) ==
    \/ out.result.threw
    \/ kind = "updateRowsViaAppleScript" /\ Len(out.commands) = 0

\* readWorkbook .. the end of the row loop of call p
AfterLoad(state, p, aoa, kind, out) ==
    [state EXCEPT !.pc[p] = IF ReturnsEarly(kind, out) THEN "done" ELSE "persist",
                  !.loaded[p] = aoa,
                  !.pending[p] = out]

\* a persist step that writes nothing when the file is no longer the one the
\* call loaded
PersistedIfUnchanged(kind, current, loaded, out) ==
    IF current # loaded THEN current
    ELSE IF kind = "updateTableRows" THEN out.file
    ELSE updateCellsBatch(current, out.commands, Len(out.commands))

\* the file after the persist step: writeWorkbook writes the whole table the
\* call computed, the script sets the cells of its commands in the document
Persisted(kind, current, loaded, out) ==
    IF kind = "updateTableRows" THEN out.file
    ELSE updateCellsBatch(current, out.commands, Len(out.commands))

RaceLoad ==
    \E p \in 1..2 :
        /\ result.pc[p] = "load"
        /\ result' = AfterLoad(result, p, file, call.calls[p].kind, RunCall(call.calls[p], file))
        /\ UNCHANGED <<file, call, before, commands>>

RacePersist ==
    \E p \in 1..2 :
        /\ result.pc[p] = "persist"
        /\ file' = Persisted(call.calls[p].kind, file, result.loaded[p], result.pending[p])
        /\ commands' = commands \o result.pending[p].commands
        /\ result' = [result EXCEPT !.pc[p] = "done", !.persisted = Append(@, p)]
        /\ UNCHANGED <<call, before>>

NextRace ==
    \/ RaceLoad
    \/ RacePersist

SpecRace == InitRace /\ [][NextRace]_vars

(***************************************************************************)
(* Claim C22.                                                              *)
(***************************************************************************)
RaceDone == result.pc = <<"done", "done">>

\* the file after call p has run alone on aoa, from its load to its persist
Alone(p, aoa) == RunCall(call.calls[p], aoa).file

\* the file after the two calls have run one after the other, p first
Serial(p, q) == Alone(q, Alone(p, before))

\* what call p writes onto the file `onto` from the snapshot it loaded: the
\* whole table of its snapshot, or the cells selected on its snapshot
Written(p, onto) ==
    IF call.calls[p].kind = "updateTableRows"
    THEN Alone(p, result.loaded[p])
    ELSE LET cells == RunCall(call.calls[p], result.loaded[p]).commands
         IN  updateCellsBatch(onto, cells, Len(cells))

\* the file after the persist steps taken so far, in their order
FinalOf(order) ==
    IF Len(order) = 0 THEN before
    ELSE IF Len(order) = 1 THEN Written(order[1], before)
    ELSE Written(order[2], Written(order[1], before))

\* both calls loaded the file before either persisted
Interleaved == result.loaded[1] = before /\ result.loaded[2] = before

\* C22: nothing orders the load and persist steps of two mutation calls on
\* the same file: each call persists what it computed from its own snapshot,
\* whatever has been persisted since it loaded, so that the persisted table
\* is the writes of the stale snapshots in persist order (a whole table that
\* drops the other call's effect, or cells set on rows selected on the
\* snapshot), with no reference to the current file.
C22_PersistsFromOwnSnapshot ==
    /\ file = FinalOf(result.persisted)
    /\ \A p \in 1..2 :
          result.pc[p] # "load" => result.pending[p] = RunCall(call.calls[p], result.loaded[p])

\* two script updates interleave and the persisted table is the result of
\* neither serial order: the second call's cells are set on a row that no
\* longer matches the where it was selected by
C22_Witness ==
    /\ RaceDone
    /\ Interleaved
    /\ result.persisted = <<1, 2>>
    /\ call.calls[1].kind = "updateRowsViaAppleScript"
    /\ call.calls[2].kind = "updateRowsViaAppleScript"
    /\ file # Serial(1, 2)
    /\ file # Serial(2, 1)
    /\ Matching(sheetToTable(Written(1, before)).rows, call.calls[2].where) = {}
    /\ result.pending[2].commands # <<>>

====
